---- MODULE Spec2Model ----
(***************************************************************************)
(* A model of rapidllm: the logging-level validator and the dual-sink      *)
(* logger factory (src/rapidllm/rapidlogger.py), the chat pipeline         *)
(* RapidClient.generate_chat_response with its transcription step          *)
(* (src/rapidllm/llm_client.py) and the HTTP handler simple_prompt         *)
(* (src/main.py).                                                          *)
(*                                                                         *)
(* Python strings are sequences of one-character strings, so that          *)
(* str.strip, str.upper, f-string formatting and concatenation are         *)
(* computed character by character.  A Python value is a record            *)
(* [type, str]: type is the Python type name and str the characters of a   *)
(* str (empty for every other type).                                       *)
(***************************************************************************)
EXTENDS Integers, Sequences, FiniteSets, TLC

VARIABLES
    \* ---- chat pipeline (llm_client.py, main.py) ----
    settings,            \* RapidClientSettings of the one RapidClient
    fs,                  \* the audio files that exist (full paths)
    pc,                  \* position of the request being served
    caller,              \* who called generate_chat_response
    query,               \* the inbound query parameters of simple_prompt
    args,                \* message, prompt, audio_path as bound in the call
    transcribed_text,    \* local of generate_chat_response
    final_user_message,  \* local of generate_chat_response
    invocations,         \* completion calls made for this request, in order
    events,              \* call/return events of this request, in order
    log,                 \* levels of the records logged for this request
    response,            \* what the completion call did
    result,              \* how generate_chat_response ended
    \* ---- logger factory (rapidlogger.py) ----
    config_args,         \* the arguments given to RapidLoggerConfig(...)
    config_data,         \* what RapidLoggerConfig(...) produced
    loggers,             \* logging's registry: name -> [level, handlers]
    logsDir,             \* whether the directory "logs" exists
    lpc,                 \* per thread: position inside RapidLogger
    lcfg,                \* per thread: the config argument
    lnew,                \* per thread: the handlers it created (locals)
    returned             \* per name: calls of RapidLogger that returned

pipeVars == <<settings, fs, pc, caller, query, args, transcribed_text,
              final_user_message, invocations, events, log, response,
              result>>
cfgVars == <<config_args, config_data>>
logVars == <<loggers, logsDir, lpc, lcfg, lnew, returned>>
vars == <<pipeVars, cfgVars, logVars>>

(***************************************************************************)
(* Python values and strings                                               *)
(***************************************************************************)
None == [type |-> "NoneType", str |-> <<>>]
PyStr(s) == [type |-> "str", str |-> s]
PyList == [type |-> "list", str |-> <<>>]
PyInt == [type |-> "int", str |-> <<>>]

\* bool(v) of a str or None: "if v:" / "if not v:"
Truthy(v) == v.type = "str" /\ Len(v.str) > 0

NoneRepr ==
    <<"N","o","n","e">>

\* "{v}" inside an f-string: a str as it is, None as the text None
Format(v) == IF v.type = "str" THEN v.str ELSE NoneRepr

\* the characters str.strip() removes
Whitespace == {" ", "\n", "\t", "\r", "\f"}

RECURSIVE lstrip(_)
lstrip(s) ==
    IF Len(s) > 0 /\ Head(s) \in Whitespace THEN lstrip(Tail(s)) ELSE s

RECURSIVE rstrip(_)
rstrip(s) ==
    IF Len(s) > 0 /\ s[Len(s)] \in Whitespace
    THEN rstrip(SubSeq(s, 1, Len(s) - 1))
    ELSE s

strip(s) == rstrip(lstrip(s))

(***************************************************************************)
(* Literals of llm_client.py and main.py                                   *)
(***************************************************************************)
DefaultPrompt ==
    <<"H","e","l","p","f","u","l"," ","A","I","."," ","G","i","v","e"," ","m","e"," ","a",
      " ","b","a","r","e"," ","s","t","r","i","n","g"," ","n","o"," ","a","d","d","e",
      "d"," ","n","e","w","l","i","n","e","s">>
AudioDir ==
    <<"a","u","d","i","o">>
StubTranscript ==
    <<"t","e","l","l"," ","m","e"," ","a"," ","j","o","k","e">>
TranscriptSeparator ==
    <<"\n","\n">>
TranscriptLabel ==
    <<"*","*","T","r","a","n","s","c","r","i","b","e","d"," ","A","u","d","i","o",":","*",
      "*"," ">>
EmptyInputError ==
    <<"E","r","r","o","r",":"," ","U","s","e","r"," ","m","e","s","s","a","g","e"," ","o",
      "r"," ","s","u","c","c","e","s","s","f","u","l","l","y"," ","t","r","a","n","s",
      "c","r","i","b","e","d"," ","a","u","d","i","o"," ","m","u","s","t"," ","b","e",
      " ","p","r","o","v","i","d","e","d",".">>
ConnectErrorPrefix ==
    <<"E","r","r","o","r"," ","c","o","n","n","e","c","t","i","n","g"," ","t","o"," ","L",
      "L","M"," ","a","t"," ">>
DefaultBaseUrl ==
    <<"h","t","t","p",":","/","/","b","r","o","k","e","n">>
DefaultModel ==
    <<"a","i","/","g","e","m","m","a","3","n">>
DefaultApiKey ==
    <<"a","n","y","t","h","i","n","g">>

(***************************************************************************)
(* Inputs of the chat pipeline                                             *)
(***************************************************************************)
Messages ==
    {None, PyStr(<<>>), PyStr(<<"h","i">>), PyStr(<<" ","h","i","\n">>), PyStr(<<" ">>)}
Prompts == {None, PyStr(<<"B","e"," ","b","r","i","e","f">>)}
AudioA == <<"a",".","w","a","v">>
AudioB == <<"b",".","w","a","v">>
AudioRefs == {None, PyStr(<<>>), PyStr(AudioA), PyStr(AudioB)}
\* values of the environment variable BASE_URL (None: unset)
BaseUrlEnv == {None, PyStr(<<"h","t","t","p",":","/","/","l","l","m">>)}
\* what client.chat.completions.create can do: raise, or return a response
\* whose choices list is empty or holds one message content
Responses ==
    {[kind |-> "raise", choices |-> <<>>],
     [kind |-> "response", choices |-> <<>>],
     [kind |-> "response", choices |-> <<None>>],
     [kind |-> "response", choices |-> <<PyList>>],
     [kind |-> "response", choices |-> <<PyStr(<<>>)>>],
     [kind |-> "response", choices |-> <<PyStr(<<" "," ","a"," ","j","o","k","e"," "," ">>)>>],
     [kind |-> "response", choices |-> <<PyStr(<<"o","k">>)>>]}

NoArgs == [message |-> None, prompt |-> None, audio_path |-> None]
NoResult == [kind |-> "pending", value |-> None]
NoResponse == [kind |-> "none", choices |-> <<>>]

(***************************************************************************)
(* RapidClientSettings and RapidClient.transcribe_audio                    *)
(***************************************************************************)
\* base_url's default_factory: os.environ.get("BASE_URL", "http://broken")
RapidClientSettings(env) ==
    [base_url |-> IF env.type = "str" THEN env.str ELSE DefaultBaseUrl,
     api_key |-> DefaultApiKey,
     default_model |-> DefaultModel]

\* os.path.join("audio", p): an absolute p replaces the directory
PathJoin(dir, p) ==
    IF Len(p) > 0 /\ Head(p) = "/" THEN p ELSE dir \o <<"/">> \o p

\* os.path.exists(full_audio_path)
PathExists(path) == path \in fs

\* a plausible slip: the existence check left out
transcribe_audio_unchecked(audio_path) ==
    [value |-> PyStr(StubTranscript), level |-> "INFO"]

\* transcribe_audio: None when the file is missing, the stub text otherwise
transcribe_audio(audio_path) ==
    LET full_audio_path == PathJoin(AudioDir, audio_path.str)
    IN  IF ~PathExists(full_audio_path)
        THEN [value |-> None, level |-> "ERROR"]
        ELSE [value |-> PyStr(StubTranscript), level |-> "INFO"]

(***************************************************************************)
(* RapidClient.generate_chat_response, step by step                        *)
(***************************************************************************)
\* a plausible slip: the transcription step is entered for every request
AlwaysTranscribe(audio_path) == TRUE

\* "if audio_path:"
AudioGiven(audio_path) == Truthy(audio_path)

\* f"{message}\n\n**Transcribed Audio:** {transcribed_text}".strip()
Combine(message, text) ==
    PyStr(strip(Format(message) \o TranscriptSeparator \o TranscriptLabel
                \o Format(text)))

\* a plausible slip: "if final_user_message is None:"
IsNoneInput(v) == v.type # "str"

\* "if not final_user_message:"
IsEmptyInput(v) == ~Truthy(v)

\* the messages list of the completion call
BuildMessages(prompt, user) ==
    <<[role |-> "system", content |-> prompt],
      [role |-> "user", content |-> user]>>

\* the body of the try block, given what create did: the value it returns,
\* or the exception raised inside it
TryCompletion(resp) ==
    IF resp.kind = "raise" THEN [exc |-> "APIError", value |-> None]
    ELSE IF Len(resp.choices) = 0 THEN [exc |-> "IndexError", value |-> None]
    ELSE IF resp.choices[1].type # "str"
         THEN [exc |-> "AttributeError", value |-> None]
    ELSE [exc |-> "none", value |-> PyStr(strip(resp.choices[1].str))]

\* a plausible slip: the error text without the endpoint
ConnectErrorNoUrl == PyStr(ConnectErrorPrefix)

\* f"Error connecting to LLM at {self.settings.base_url}"
ConnectError == PyStr(ConnectErrorPrefix \o settings.base_url)

\* a plausible slip: only the client's own errors are handled
CaughtApiErrorOnly(exc) == exc = "APIError"

\* "except Exception as e": every exception of the try block is caught
Caught(exc) == exc # "none"

\* how the try statement ends
EndOfTry(t) ==
    IF t.exc = "none" THEN [kind |-> "return", value |-> t.value]
    ELSE IF Caught(t.exc) THEN [kind |-> "return", value |-> ConnectError]
    ELSE [kind |-> "raise", value |-> None]

\* entry of generate_chat_response: parameters bound, line 98 executed
Enter(who, q, a) ==
    /\ pc = "idle"
    /\ caller' = who
    /\ query' = q
    /\ args' = a
    /\ final_user_message' = a.message
    /\ pc' = "audio"
    /\ UNCHANGED <<settings, fs, transcribed_text, invocations, events, response,
                   result>>

\* GET /rapid/exampleai: logs, then passes its three parameters by keyword
simple_prompt(message, prompt, audio_path) ==
    /\ Enter("simple_prompt",
             [message |-> message, prompt |-> prompt, audio_path |-> audio_path],
             [message |-> message, prompt |-> prompt, audio_path |-> audio_path])
    /\ log' = <<"INFO">>

\* a call that leaves prompt to its default
generate_chat_response(message, audio_path) ==
    /\ Enter("direct", NoArgs,
             [message |-> message, prompt |-> PyStr(DefaultPrompt),
              audio_path |-> audio_path])
    /\ log' = <<>>

\* lines 100-103: the transcription call is made only for a given audio_path
HandleAudio ==
    /\ pc = "audio"
    /\ IF AudioGiven(args.audio_path)
       THEN /\ log' = Append(log, "DEBUG")
            /\ events' = Append(events, "transcribe_call")
            /\ pc' = "transcribing"
       ELSE /\ pc' = "check"
            /\ UNCHANGED <<log, events>>
    /\ UNCHANGED <<settings, fs, caller, query, args, transcribed_text,
                   final_user_message, invocations, response, result>>

\* transcribe_audio returns; lines 105-113
TranscribeReturns ==
    /\ pc = "transcribing"
    /\ LET t == transcribe_audio(args.audio_path)
       IN  /\ transcribed_text' = t.value
           /\ events' = Append(events, "transcribe_return")
           /\ IF Truthy(t.value)
              THEN /\ final_user_message' = Combine(args.message, t.value)
                   /\ log' = Append(log, t.level)
              ELSE /\ log' = log \o <<t.level, "WARNING">>
                   /\ UNCHANGED final_user_message
    /\ pc' = "check"
    /\ UNCHANGED <<settings, fs, caller, query, args, invocations, response,
                   result>>

\* lines 116-133: the empty-input fallback, else the completion call
AssembleAndCall ==
    /\ pc = "check"
    /\ IF IsEmptyInput(final_user_message)
       THEN /\ result' = [kind |-> "return", value |-> PyStr(EmptyInputError)]
            /\ pc' = "done"
            /\ UNCHANGED <<log, invocations, events>>
       ELSE /\ log' = Append(log, "INFO")
            /\ invocations' =
                   Append(invocations,
                          [model |-> settings.default_model,
                           messages |-> BuildMessages(args.prompt,
                                                      final_user_message)])
            /\ events' = Append(events, "complete_call")
            /\ pc' = "completing"
            /\ UNCHANGED result
    /\ UNCHANGED <<settings, fs, caller, query, args, transcribed_text,
                   final_user_message, response>>

\* lines 129-140: create returns or raises, and the try statement ends
CompletionReturns(resp) ==
    /\ pc = "completing"
    /\ events' = Append(events, IF resp.kind = "raise" THEN "complete_raise"
                                ELSE "complete_return")
    /\ response' = resp
    /\ result' = EndOfTry(TryCompletion(resp))
    /\ pc' = "done"
    /\ UNCHANGED <<settings, fs, caller, query, args, transcribed_text,
                   final_user_message, invocations, log>>

\* the call is over: its locals are discarded
Return ==
    /\ pc = "done"
    /\ pc' = "idle"
    /\ caller' = "none"
    /\ query' = NoArgs
    /\ args' = NoArgs
    /\ transcribed_text' = None
    /\ final_user_message' = None
    /\ invocations' = <<>>
    /\ events' = <<>>
    /\ log' = <<>>
    /\ response' = NoResponse
    /\ result' = NoResult
    /\ UNCHANGED <<settings, fs>>

(***************************************************************************)
(* The chat pipeline as a state machine                                    *)
(***************************************************************************)
PipeStart ==
    /\ pc = "idle"
    /\ caller = "none"
    /\ query = NoArgs
    /\ args = NoArgs
    /\ transcribed_text = None
    /\ final_user_message = None
    /\ invocations = <<>>
    /\ events = <<>>
    /\ log = <<>>
    /\ response = NoResponse
    /\ result = NoResult

\* the process as it starts: BASE_URL set or not, some audio files stored
PipeInit ==
    /\ settings \in {RapidClientSettings(e) : e \in BaseUrlEnv}
    /\ fs \in SUBSET {PathJoin(AudioDir, AudioA), PathJoin(AudioDir, AudioB)}
    /\ PipeStart

\* the pipeline at rest, for the specifications of the logger
PipeIdle ==
    /\ settings = RapidClientSettings(None)
    /\ fs = {}
    /\ PipeStart

(***************************************************************************)
(* RapidLoggerConfig and its validator                                     *)
(***************************************************************************)
\* LoggingLevelStr = Literal["CRITICAL", "ERROR", "WARNING", "INFO", "DEBUG", "NOTSET"]
LoggingLevelStr ==
    <<<<"C","R","I","T","I","C","A","L">>,
      <<"E","R","R","O","R">>,
      <<"W","A","R","N","I","N","G">>,
      <<"I","N","F","O">>,
      <<"D","E","B","U","G">>,
      <<"N","O","T","S","E","T">>>>

LowerLetters ==
    <<"a","b","c","d","e","f","g","h","i","j","k","l","m","n","o","p","q","r","s","t","u","v","w","x","y","z">>
UpperLetters ==
    <<"A","B","C","D","E","F","G","H","I","J","K","L","M","N","O","P","Q","R","S","T","U","V","W","X","Y","Z">>

\* one character of str.upper() / str.lower()
UpperChar(c) ==
    IF \E i \in DOMAIN LowerLetters : LowerLetters[i] = c
    THEN UpperLetters[CHOOSE i \in DOMAIN LowerLetters : LowerLetters[i] = c]
    ELSE c
LowerChar(c) ==
    IF \E i \in DOMAIN UpperLetters : UpperLetters[i] = c
    THEN LowerLetters[CHOOSE i \in DOMAIN UpperLetters : UpperLetters[i] = c]
    ELSE c

\* v.upper()
str_upper(s) == [i \in 1..Len(s) |-> UpperChar(s[i])]

\* a field the caller did not pass
Omitted == [type |-> "omitted", str |-> <<>>]

\* LoggingLevelStr.__args__
valid_levels == {LoggingLevelStr[i] : i \in DOMAIN LoggingLevelStr}

\* a plausible slip: the comparison made without upper-casing
validate_level_cased(v) ==
    IF v.type = "str"
    THEN IF v.str \in valid_levels
         THEN [raised |-> FALSE, value |-> v]
         ELSE [raised |-> TRUE, value |-> v]
    ELSE [raised |-> FALSE, value |-> v]

\* the mode='before' field validator: the value handed on, or ValueError
validate_level(v) ==
    IF v.type = "str"
    THEN LET upper_v == str_upper(v.str)
         IN  IF upper_v \in valid_levels
             THEN [raised |-> FALSE, value |-> PyStr(upper_v)]
             ELSE [raised |-> TRUE, value |-> v]
    ELSE [raised |-> FALSE, value |-> v]

\* the field's own type, checked after the validator: a member of the Literal
IsLoggingLevelStr(v) == v.type = "str" /\ v.str \in valid_levels

\* one level field: its default "INFO" when omitted, else validator and type
LevelField(v) ==
    IF v = Omitted
    THEN [error |-> "none", value |-> LoggingLevelStr[4]]
    ELSE LET r == validate_level(v)
         IN  IF r.raised THEN [error |-> "value_error", value |-> <<>>]
             ELSE IF ~IsLoggingLevelStr(r.value)
                  THEN [error |-> "literal_error", value |-> <<>>]
             ELSE [error |-> "none", value |-> r.value.str]

NoConfig == [name |-> "", console_level |-> <<>>, file_level |-> <<>>]

\* RapidLoggerConfig(name=..., console_level=..., file_level=...): the object,
\* or the ValidationError listing each field's error
RapidLoggerConfig(a) ==
    LET c == LevelField(a.console_level)
        f == LevelField(a.file_level)
    IN  IF c.error = "none" /\ f.error = "none"
        THEN [state |-> "object",
              config |-> [name |-> a.name, console_level |-> c.value,
                          file_level |-> f.value],
              errors |-> [console_level |-> "none", file_level |-> "none"]]
        ELSE [state |-> "ValidationError",
              config |-> NoConfig,
              errors |-> [console_level |-> c.error, file_level |-> f.error]]

(***************************************************************************)
(* Inputs of the validator                                                 *)
(***************************************************************************)
LoggerNames == {"LLM", "WebApp"}

\* every upper/lower-case spelling of w
CaseVariants(w) ==
    {[i \in 1..Len(w) |-> IF m[i] THEN UpperChar(w[i]) ELSE LowerChar(w[i])] :
        m \in [1..Len(w) -> BOOLEAN]}

\* strings that are no level name in any case
OtherWords ==
    {<<>>, <<"W","A","R","N">>, <<"I","N","F","O","S">>, <<" ","I","N","F","O">>,
     <<"i","n","f","o","\n">>, <<"3","0">>, <<"T","R","A","C","E">>}
    \cup CaseVariants(<<"V","E","R","B","O","S","E">>)

RawLevels ==
    {PyStr(s) : s \in UNION {CaseVariants(LoggingLevelStr[i]) :
                                 i \in DOMAIN LoggingLevelStr}}
    \cup {PyStr(s) : s \in OtherWords}
    \cup {Omitted, None, PyInt, PyList}

\* a few of them
FewLevels ==
    {PyStr(<<"W","A","R","N","I","N","G">>), PyStr(<<"d","e","b","u","g">>),
     PyStr(<<"V","E","R","B","O","S","E">>), Omitted}

NoConfigArgs == [name |-> "", console_level |-> Omitted, file_level |-> Omitted]
NotConstructed ==
    [state |-> "none", config |-> NoConfig,
     errors |-> [console_level |-> "none", file_level |-> "none"]]

\* config_data = RapidLoggerConfig(...)
Construct ==
    /\ config_data = NotConstructed
    /\ config_args # NoConfigArgs
    /\ config_data' = RapidLoggerConfig(config_args)
    /\ UNCHANGED config_args

(***************************************************************************)
(* RapidLogger, step by step, one position per calling thread              *)
(***************************************************************************)
NumThreads == 2
MaxCalls == 2

Threads == 1..NumThreads

\* what callers pass to RapidLoggerConfig: the levels of main.py:11-15 and
\* llm_client.py:10-14, and a lower-case level with the other left to default
CallerArgs ==
    {[name |-> n, console_level |-> PyStr(<<"W","A","R","N","I","N","G">>),
      file_level |-> PyStr(<<"D","E","B","U","G">>)] : n \in LoggerNames}
    \cup {[name |-> n, console_level |-> PyStr(<<"d","e","b","u","g">>),
           file_level |-> Omitted] : n \in LoggerNames}

\* the config objects callers hold: what RapidLoggerConfig accepts
CallerConfigs ==
    {RapidLoggerConfig(a).config :
         a \in {x \in CallerArgs : RapidLoggerConfig(x).state = "object"}}

\* logging.getLogger(name): the registered logger, created on first use
getLogger(name) ==
    IF name \in DOMAIN loggers THEN loggers
    ELSE [n \in DOMAIN loggers \cup {name} |->
             IF n = name THEN [level |-> "NOTSET", handlers |-> <<>>]
             ELSE loggers[n]]

\* a plausible slip: the guard against repeated configuration left out
HandlersNeverChecked(handlers) == TRUE

\* "if not logger.handlers:"
HandlersEmpty(handlers) == Len(handlers) = 0

\* Logger.addHandler: appends unless that very handler is already attached
addHandler(handlers, h) ==
    IF \E i \in DOMAIN handlers : handlers[i] = h THEN handlers
    ELSE Append(handlers, h)

\* lines 65-68: getLogger and setLevel(logging.DEBUG)
Call(t, config) ==
    /\ lpc[t] = "idle"
    /\ returned[config.name] < MaxCalls
    /\ lcfg' = [lcfg EXCEPT ![t] = config]
    /\ loggers' = [getLogger(config.name) EXCEPT ![config.name].level = "DEBUG"]
    /\ lpc' = [lpc EXCEPT ![t] = "check"]
    /\ UNCHANGED <<logsDir, lnew, returned>>

\* line 71
CheckHandlers(t) ==
    /\ lpc[t] = "check"
    /\ lpc' = [lpc EXCEPT ![t] =
                   IF HandlersEmpty(loggers[lcfg[t].name].handlers)
                   THEN "create" ELSE "return"]
    /\ UNCHANGED <<loggers, logsDir, lcfg, lnew, returned>>

\* lines 73-86: the two handlers are built; os.makedirs or the opening of
\* the log file may raise OSError, which leaves RapidLogger
CreateHandlers(t, io) ==
    /\ lpc[t] = "create"
    /\ io \in {"ok", "open_fails"} \/ ~logsDir
    /\ logsDir' = (logsDir \/ io # "makedirs_fails")
    /\ IF io = "ok"
       THEN /\ lnew' = [lnew EXCEPT ![t] =
                  <<[kind |-> "console", level |-> lcfg[t].console_level,
                     name |-> lcfg[t].name, owner |-> t],
                    [kind |-> "file", level |-> lcfg[t].file_level,
                     name |-> lcfg[t].name, owner |-> t]>>]
            /\ lpc' = [lpc EXCEPT ![t] = "add_c"]
            /\ UNCHANGED lcfg
       ELSE /\ lpc' = [lpc EXCEPT ![t] = "idle"]
            /\ lcfg' = [lcfg EXCEPT ![t] = NoConfig]
            /\ UNCHANGED lnew
    /\ UNCHANGED <<loggers, returned>>

\* line 89: logger.addHandler(c_handler)
AddConsole(t) ==
    /\ lpc[t] = "add_c"
    /\ loggers' = [loggers EXCEPT ![lcfg[t].name].handlers =
                       addHandler(@, lnew[t][1])]
    /\ lpc' = [lpc EXCEPT ![t] = "add_f"]
    /\ UNCHANGED <<logsDir, lcfg, lnew, returned>>

\* line 90: logger.addHandler(f_handler)
AddFile(t) ==
    /\ lpc[t] = "add_f"
    /\ loggers' = [loggers EXCEPT ![lcfg[t].name].handlers =
                       addHandler(@, lnew[t][2])]
    /\ lpc' = [lpc EXCEPT ![t] = "return"]
    /\ UNCHANGED <<logsDir, lcfg, lnew, returned>>

\* line 92: return logger
LoggerReturn(t) ==
    /\ lpc[t] = "return"
    /\ returned' = [returned EXCEPT ![lcfg[t].name] = @ + 1]
    /\ lpc' = [lpc EXCEPT ![t] = "idle"]
    /\ lcfg' = [lcfg EXCEPT ![t] = NoConfig]
    /\ lnew' = [lnew EXCEPT ![t] = <<>>]
    /\ UNCHANGED <<loggers, logsDir>>

\* a call made while no other call is in progress
CallAlone(t, config) ==
    /\ \A u \in Threads : lpc[u] = "idle"
    /\ Call(t, config)

(***************************************************************************)
(* Specifications                                                          *)
(***************************************************************************)
CfgInit ==
    /\ config_args = NoConfigArgs
    /\ config_data = NotConstructed

\* the validator's inputs: every raw level in one field, a few in the other
CfgInitAll ==
    /\ config_args \in
           {[name |-> n, console_level |-> c, file_level |-> f] :
                n \in LoggerNames, c \in RawLevels, f \in FewLevels}
           \cup {[name |-> n, console_level |-> c, file_level |-> f] :
                n \in LoggerNames, c \in FewLevels, f \in RawLevels}
    /\ config_data = NotConstructed

LogStart ==
    /\ loggers = <<>>
    /\ lpc = [t \in Threads |-> "idle"]
    /\ lcfg = [t \in Threads |-> NoConfig]
    /\ lnew = [t \in Threads |-> <<>>]
    /\ returned = [n \in LoggerNames |-> 0]

\* no logger configured yet; the directory "logs" may or may not exist
LogInit == logsDir \in BOOLEAN /\ LogStart
LogIdle == logsDir = FALSE /\ LogStart

Init == PipeInit /\ CfgInit /\ LogIdle

\* requests served one after the other by the one RapidClient
Next ==
    \/ \E m \in Messages, p \in Prompts, a \in AudioRefs :
           simple_prompt(m, p, a) /\ UNCHANGED <<cfgVars, logVars>>
    \/ \E m \in Messages, a \in AudioRefs :
           generate_chat_response(m, a) /\ UNCHANGED <<cfgVars, logVars>>
    \/ HandleAudio /\ UNCHANGED <<cfgVars, logVars>>
    \/ TranscribeReturns /\ UNCHANGED <<cfgVars, logVars>>
    \/ AssembleAndCall /\ UNCHANGED <<cfgVars, logVars>>
    \/ \E r \in Responses : CompletionReturns(r) /\ UNCHANGED <<cfgVars, logVars>>
    \/ Return /\ UNCHANGED <<cfgVars, logVars>>

Spec == Init /\ [][Next]_vars

\* RapidLoggerConfig applied to each input
InitConfig == PipeIdle /\ CfgInitAll /\ LogIdle
NextConfig == Construct /\ UNCHANGED <<pipeVars, logVars>>
SpecConfig == InitConfig /\ [][NextConfig]_vars

InitLogger == PipeIdle /\ CfgInit /\ LogInit

\* calls of RapidLogger made one after the other
NextLoggerSeq ==
    \/ \E t \in Threads, c \in CallerConfigs :
           CallAlone(t, c) /\ UNCHANGED <<pipeVars, cfgVars>>
    \/ \E t \in Threads : CheckHandlers(t) /\ UNCHANGED <<pipeVars, cfgVars>>
    \/ \E t \in Threads, io \in {"ok", "makedirs_fails", "open_fails"} :
           CreateHandlers(t, io) /\ UNCHANGED <<pipeVars, cfgVars>>
    \/ \E t \in Threads : AddConsole(t) /\ UNCHANGED <<pipeVars, cfgVars>>
    \/ \E t \in Threads : AddFile(t) /\ UNCHANGED <<pipeVars, cfgVars>>
    \/ \E t \in Threads : LoggerReturn(t) /\ UNCHANGED <<pipeVars, cfgVars>>
SpecLoggerSeq == InitLogger /\ [][NextLoggerSeq]_vars

\* calls of RapidLogger made by threads that run concurrently
NextLoggerConc ==
    \/ \E t \in Threads, c \in CallerConfigs :
           Call(t, c) /\ UNCHANGED <<pipeVars, cfgVars>>
    \/ \E t \in Threads : CheckHandlers(t) /\ UNCHANGED <<pipeVars, cfgVars>>
    \/ \E t \in Threads, io \in {"ok", "makedirs_fails", "open_fails"} :
           CreateHandlers(t, io) /\ UNCHANGED <<pipeVars, cfgVars>>
    \/ \E t \in Threads : AddConsole(t) /\ UNCHANGED <<pipeVars, cfgVars>>
    \/ \E t \in Threads : AddFile(t) /\ UNCHANGED <<pipeVars, cfgVars>>
    \/ \E t \in Threads : LoggerReturn(t) /\ UNCHANGED <<pipeVars, cfgVars>>
SpecLoggerConc == InitLogger /\ [][NextLoggerConc]_vars

(***************************************************************************)
(* Properties of the chat pipeline (checked under Spec)                    *)
(***************************************************************************)
\* the request's inputs, read off the arguments and the file system
MessageGiven == args.message.type = "str" /\ args.message.str # <<>>
AudioPresent == args.audio_path.type = "str" /\ args.audio_path.str # <<>>
AudioFileMissing ==
    AudioPresent /\ (AudioDir \o <<"/">> \o args.audio_path.str) \notin fs
AudioFileFound ==
    AudioPresent /\ (AudioDir \o <<"/">> \o args.audio_path.str) \in fs
InRequest == pc # "idle"
Invoked == Len(invocations) > 0
UserContent == invocations[1].messages[2].content
CompletionFailed ==
    \/ response.kind = "raise"
    \/ /\ response.kind = "response"
       /\ (Len(response.choices) = 0 \/ response.choices[1].type # "str")
CompletionSucceeded ==
    /\ response.kind = "response"
    /\ Len(response.choices) > 0
    /\ response.choices[1].type = "str"
Count(seq, e) == Cardinality({i \in DOMAIN seq : seq[i] = e})
\* sub occurs in s
Contains(s, sub) ==
    \E i \in 0..(Len(s) - Len(sub)) : SubSeq(s, i + 1, i + Len(sub)) = sub
IsPrefix(a, b) == Len(a) <= Len(b) /\ SubSeq(b, 1, Len(a)) = a

\* C1: generate_chat_response never raises: whatever the message, the audio
\* reference and the completion outcome (success, raised error, malformed
\* response), no exception leaves the call and it ends by returning a string.
C1_NeverRaises ==
    /\ result.kind # "raise"
    /\ pc = "done" => result.kind = "return" /\ result.value.type = "str"

\* C1 witness: a response without choices ended in a returned string.
C1_Witness ==
    /\ pc = "done"
    /\ response.kind = "response"
    /\ Len(response.choices) = 0
    /\ result.kind = "return"
    /\ result.value.type = "str"

\* C2: with the message absent or empty and no transcript obtained (no audio
\* reference, or its file missing), the call returns the fixed non-empty
\* explanatory string and the completion capability is never invoked.
C2_EmptyInputNoCall ==
    (InRequest /\ ~MessageGiven /\ ~AudioFileFound) =>
        /\ ~Invoked
        /\ Count(events, "complete_call") = 0
        /\ pc = "done" =>
               /\ result = [kind |-> "return", value |-> PyStr(EmptyInputError)]
               /\ Len(result.value.str) > 0

\* C2 witness: an empty message with a missing audio file got the fixed string.
C2_Witness ==
    /\ pc = "done"
    /\ args.message = PyStr(<<>>)
    /\ AudioFileMissing
    /\ result.value = PyStr(EmptyInputError)
    /\ ~Invoked

\* C3: for a non-empty effective message, when the completion capability fails
\* (raises, or returns a malformed response) the call returns a string that
\* contains settings.base_url, after one single invocation.
C3_FailureNamesBaseUrl ==
    (pc = "done" /\ Truthy(final_user_message) /\ CompletionFailed) =>
        /\ result.kind = "return"
        /\ result.value.type = "str"
        /\ IsPrefix(ConnectErrorPrefix, result.value.str)
        /\ Contains(result.value.str, settings.base_url)
        /\ Len(invocations) = 1
        /\ Count(events, "complete_call") = 1

\* C3 witness: the capability raised once and the endpoint is in the result.
C3_Witness ==
    /\ pc = "done"
    /\ response.kind = "raise"
    /\ Len(invocations) = 1
    /\ Contains(result.value.str, settings.base_url)

\* C6: whenever a transcript text t was obtained, the user content sent is the
\* message text (nothing when the message is absent), a blank line, the
\* labeled block with t, stripped; an absent message gives exactly the block.
C6_TranscriptAssembly ==
    (Invoked /\ AudioFileFound) =>
        UserContent =
            PyStr(strip((IF args.message.type = "str" THEN args.message.str
                         ELSE <<>>)
                        \o <<"\n", "\n">> \o TranscriptLabel \o StubTranscript))

\* C8: every completion invocation carries exactly [system, user]; the user
\* content is the effective message, the system content is the request's
\* prompt, the fixed default when the inbound request supplies none, never None.
C8_SystemPromptDefault ==
    \A i \in DOMAIN invocations :
        LET m == invocations[i].messages
        IN  /\ Len(m) = 2
            /\ m[1].role = "system"
            /\ m[2].role = "user"
            /\ m[2].content = final_user_message
            /\ m[1].content.type = "str"
            /\ m[1].content =
                   IF caller = "simple_prompt" /\ query.prompt.type = "str"
                   THEN query.prompt ELSE PyStr(DefaultPrompt)

\* C9: a missing audio file is reported by transcribe_audio as a normal return
\* (None, no exception); with a non-empty message the request goes on with the
\* message alone, unchanged, and ends with the completion outcome.
C9_MissingAudioTextOnly ==
    (AudioFileMissing /\ pc \in {"check", "completing", "done"}) =>
        /\ events[1] = "transcribe_call" /\ events[2] = "transcribe_return"
        /\ transcribed_text = None
        /\ result.kind # "raise"
        /\ (MessageGiven /\ pc \in {"completing", "done"}) =>
               /\ Len(invocations) = 1
               /\ UserContent = args.message
        /\ (MessageGiven /\ pc = "done") =>
               /\ response.kind # "none"
               /\ result.value # PyStr(EmptyInputError)
               /\ CompletionSucceeded =>
                      result.value = PyStr(strip(response.choices[1].str))

\* C9 witness: the file is missing, the padded message went out as it was.
C9_Witness ==
    /\ pc = "done"
    /\ AudioFileMissing
    /\ args.message = PyStr(<<" ","h","i","\n">>)
    /\ UserContent = args.message
    /\ CompletionSucceeded
    /\ result.value = PyStr(<<"a"," ","j","o","k","e">>)

\* C10: a request makes at most one transcription call and at most one
\* completion call; the transcription call is made only for a present audio
\* reference and has returned before the completion call starts.
C10_CallOrder ==
    /\ Count(events, "transcribe_call") <= 1
    /\ Count(events, "complete_call") <= 1
    /\ Count(events, "transcribe_call") > 0 => AudioPresent
    /\ \/ IsPrefix(events, <<"transcribe_call", "transcribe_return",
                             "complete_call", "complete_return">>)
       \/ IsPrefix(events, <<"transcribe_call", "transcribe_return",
                             "complete_call", "complete_raise">>)
       \/ IsPrefix(events, <<"complete_call", "complete_return">>)
       \/ IsPrefix(events, <<"complete_call", "complete_raise">>)

\* C10 witness: both calls were made, one after the other.
C10_Witness ==
    /\ pc = "done"
    /\ events = <<"transcribe_call", "transcribe_return", "complete_call",
                  "complete_return">>

(***************************************************************************)
(* Properties of the validator (checked under SpecConfig)                  *)
(***************************************************************************)
LevelNames ==
    {<<"C","R","I","T","I","C","A","L">>, <<"E","R","R","O","R">>,
     <<"W","A","R","N","I","N","G">>, <<"I","N","F","O">>,
     <<"D","E","B","U","G">>, <<"N","O","T","S","E","T">>}
FieldNames == {"console_level", "file_level"}
\* s spells L, each letter in either case
IsCaseVariant(s, L) ==
    /\ Len(s) = Len(L)
    /\ \A i \in DOMAIN L : s[i] \in {UpperChar(L[i]), LowerChar(L[i])}

Kinds(handlers) == [i \in DOMAIN handlers |-> handlers[i].kind]

\* C4 (SpecLoggerSeq): once a call of RapidLogger for a name has returned, the
\* logger has exactly two sinks, a console one and a file one, whatever the
\* levels of the calls that follow; a later call creates and attaches nothing.
C4_TwoSinksPerName ==
    \A n \in DOMAIN loggers :
        /\ Len(loggers[n].handlers) <= 2
        /\ returned[n] >= 1 =>
               /\ Kinds(loggers[n].handlers) = <<"console", "file">>
               /\ \A t \in Threads :
                      (lpc[t] # "idle" /\ lcfg[t].name = n) =>
                          lpc[t] \in {"check", "return"} /\ lnew[t] = <<>>

\* C4 witness: a second call, carrying another console level than the sink's,
\* is about to return, and the logger still has its two sinks.
C4_Witness ==
    \E t \in Threads :
        /\ lpc[t] = "return"
        /\ returned[lcfg[t].name] >= 1
        /\ Len(loggers[lcfg[t].name].handlers) = 2
        /\ loggers[lcfg[t].name].handlers[1].level # lcfg[t].console_level

\* C5 (SpecLoggerConc): with threads calling RapidLogger concurrently for a
\* name not yet configured, the logger never has more than one console sink
\* and one file sink.
C5_ConcurrentFirstUse ==
    \A n \in DOMAIN loggers :
        /\ Count(Kinds(loggers[n].handlers), "console") <= 1
        /\ Count(Kinds(loggers[n].handlers), "file") <= 1

====
